---- MODULE Spec2Model ----
(***************************************************************************)
(* A model of process_solar_data (src/DHL_Solar_Import.py): the monthly    *)
(* conversion of cumulative solar meter readings into per-day deltas and   *)
(* their insertion into the DHL import template.                           *)
(*                                                                         *)
(* A pandas Timestamp at midnight is modelled by its proleptic Gregorian   *)
(* ordinal (the number datetime.toordinal gives); the calendar arithmetic  *)
(* is the one of CPython's datetime module.  A cell of a meter column is a *)
(* record [k, v]: a number (k = "num"), a blank/NaN (k = "nan") or a text  *)
(* (k = "str").                                                            *)
(***************************************************************************)
EXTENDS Integers, Sequences, FiniteSets, TLC

VARIABLES
    pc,                   \* position in process_solar_data
    month, year,          \* the selected period (arguments)
    source,               \* argument solar_sheet_df as the caller passed it
    solar_sheet_df,       \* the local solar_sheet_df after lines 10-13
    first_day,            \* line 16 (0 before it is computed)
    last_day_prev_month,  \* line 17 (0 before it is computed)
    month_data,           \* lines 20-27
    meter_columns,        \* line 30
    mi,                   \* index of the meter the loop of line 34 is at
    deltas,               \* line 33: (date, meter) -> delta
    template,             \* argument template_df as the caller passed it
    template_df,          \* template_df after line 43 and after the update
    meter_mapping,        \* argument meter_mapping: a sequence of <<key, value>>
    result,               \* what process_solar_data returns
    errors                \* what st.error has shown (the only diagnostics channel)

vars == <<pc, month, year, source, solar_sheet_df, first_day, last_day_prev_month,
          month_data, meter_columns, mi, deltas, template, template_df,
          meter_mapping, result, errors>>

(***************************************************************************)
(* Bounds of the model.                                                    *)
(***************************************************************************)
MaxRows == 3        \* rows of the solar sheet
MaxTemplate == 2    \* rows of the template
YearSpan == 2       \* SpecCal: the years 2023 .. 2023 + YearSpan besides the century years

(***************************************************************************)
(* Calendar arithmetic (CPython datetime: _is_leap, _days_in_month,        *)
(* _days_before_year, _days_before_month, _ymd2ord, _ord2ymd).             *)
(***************************************************************************)
NaT == 0

IsLeap(y) == y % 4 = 0 /\ (y % 100 # 0 \/ y % 400 = 0)

DAYS_IN_MONTH == <<31, 28, 31, 30, 31, 30, 31, 31, 30, 31, 30, 31>>

DAYS_BEFORE_MONTH == <<0, 31, 59, 90, 120, 151, 181, 212, 243, 273, 304, 334>>

DaysInMonth(y, m) == IF m = 2 /\ IsLeap(y) THEN 29 ELSE DAYS_IN_MONTH[m]

DaysBeforeYear(y) ==
    LET p == y - 1 IN p * 365 + (p \div 4) - (p \div 100) + (p \div 400)

DaysBeforeMonth(y, m) ==
    DAYS_BEFORE_MONTH[m] + (IF m > 2 /\ IsLeap(y) THEN 1 ELSE 0)

\* datetime(y, m, d).toordinal()
ToOrdinal(y, m, d) == DaysBeforeYear(y) + DaysBeforeMonth(y, m) + d

\* date.fromordinal(n): the year, month and day of ordinal n
FromOrdinal(n) ==
    LET n0   == n - 1
        n400 == n0 \div 146097
        r400 == n0 % 146097
        n100 == r400 \div 36524
        r100 == r400 % 36524
        n4   == r100 \div 1461
        r4   == r100 % 1461
        n1   == r4 \div 365
        r1   == r4 % 365
        y    == n400 * 400 + 1 + n100 * 100 + n4 * 4 + n1
        leap == n1 = 3 /\ (n4 # 24 \/ n100 = 3)
        m0   == (r1 + 50) \div 32
        p0   == DAYS_BEFORE_MONTH[m0] + (IF m0 > 2 /\ leap THEN 1 ELSE 0)
        m    == IF p0 > r1 THEN m0 - 1 ELSE m0
        p    == IF p0 > r1
                THEN p0 - (DAYS_IN_MONTH[m] + (IF m = 2 /\ leap THEN 1 ELSE 0))
                ELSE p0
    IN  IF n1 = 4 \/ n100 = 4
        THEN [year |-> y - 1, month |-> 12, day |-> 31]
        ELSE [year |-> y, month |-> m, day |-> r1 - p + 1]

\* lines 16-17: first_day = datetime(year, month, 1)
FirstDay(y, m) == ToOrdinal(y, m, 1)

\* a variant that builds the day from a table of month lengths without leap years
LastDayPrevMonth_NoLeapYear(y, m) ==
    IF m = 1 THEN ToOrdinal(y - 1, 12, 31) ELSE ToOrdinal(y, m - 1, DAYS_IN_MONTH[m - 1])

\* lines 16-17: last_day_prev_month = first_day - pd.Timedelta(days=1)
LastDayPrevMonth(y, m) == FirstDay(y, m) - 1

(***************************************************************************)
(* Text of the column labels: `in`, upper(), lower(), replace(' ', '').    *)
(***************************************************************************)
Chars(label) ==
    CASE label = "Date" -> <<"D", "a", "t", "e">>
      [] label = "JAFZA 1-Meter 1" ->
            <<"J", "A", "F", "Z", "A", " ", "1", "-", "M", "e", "t", "e", "r", " ", "1">>
      [] label = "JAFZA 2-Meter 1" ->
            <<"J", "A", "F", "Z", "A", " ", "2", "-", "M", "e", "t", "e", "r", " ", "1">>
      [] label = "CGF" -> <<"C", "G", "F">>

UpperOf == [a |-> "A", e |-> "E", f |-> "F", r |-> "R", t |-> "T", z |-> "Z"]

LowerOf == [A |-> "a", C |-> "c", D |-> "d", F |-> "f", G |-> "g", J |-> "j",
            M |-> "m", Z |-> "z"]

Upper(s) == [i \in DOMAIN s |-> IF s[i] \in DOMAIN UpperOf THEN UpperOf[s[i]] ELSE s[i]]

Lower(s) == [i \in DOMAIN s |-> IF s[i] \in DOMAIN LowerOf THEN LowerOf[s[i]] ELSE s[i]]

NoSpaces(s) == SelectSeq(s, LAMBDA c : c # " ")

Contains(s, sub) ==
    \E i \in 0 .. (Len(s) - Len(sub)) : SubSeq(s, i + 1, i + Len(sub)) = sub

(***************************************************************************)
(* The solar sheet: its columns in schema order.                           *)
(***************************************************************************)
Columns == <<"Date", "JAFZA 2-Meter 1", "CGF", "JAFZA 1-Meter 1">>

\* line 9: the first column whose name holds 'date'
date_col ==
    LET hit(c) == Contains(NoSpaces(Lower(Chars(c))), <<"d", "a", "t", "e">>)
        i == CHOOSE i \in DOMAIN Columns :
                /\ hit(Columns[i])
                /\ \A j \in 1 .. (i - 1) : ~hit(Columns[j])
    IN  Columns[i]

ValueColumns == {Columns[i] : i \in DOMAIN Columns} \ {date_col}

\* line 30: 'JAFZA' in col.upper() or 'Jafza' in col
IsMeterColumn(c) ==
    \/ Contains(Upper(Chars(c)), <<"J", "A", "F", "Z", "A">>)
    \/ Contains(Chars(c), <<"J", "a", "f", "z", "a">>)

MeterColumns == SelectSeq(Columns, IsMeterColumn)

(***************************************************************************)
(* Cells and dates as the sheets hold them.                                *)
(***************************************************************************)
Num(v) == [k |-> "num", v |-> v]
NaN == [k |-> "nan", v |-> 0]
Str == [k |-> "str", v |-> 0]

\* line 10: pd.to_datetime(..., format='%m/%d/%Y', errors='coerce') of one cell
ParseMDY(raw) ==
    IF /\ raw.f1 \in 1 .. 12
       /\ raw.f2 \in 1 .. DaysInMonth(raw.f3, raw.f1)
    THEN ToOrdinal(raw.f3, raw.f1, raw.f2)
    ELSE NaT

\* line 43: pd.to_datetime(..., format='%d-%m-%Y %H:%M:%S') of one cell
\* (NaT here stands for the ValueError the unparsable text raises)
ParseDMY(raw) ==
    IF /\ raw.f2 \in 1 .. 12
       /\ raw.f1 \in 1 .. DaysInMonth(raw.f3, raw.f2)
    THEN ToOrdinal(raw.f3, raw.f2, raw.f1)
    ELSE NaT

\* lines 10-13: parse the date column, drop the rows whose date is NaT
LoadedRows(rows) ==
    SelectSeq([i \in DOMAIN rows |-> [date |-> ParseMDY(rows[i].date),
                                       vals |-> rows[i].vals]],
              LAMBDA r : r.date # NaT)

(***************************************************************************)
(* The inputs the model draws from.                                        *)
(***************************************************************************)
Periods == {<<1, 2024>>, <<3, 2024>>}

CalYears == {1900, 2000, 2100} \cup (2023 .. (2023 + YearSpan))

\* the text 'MM/DD/YYYY' of the day with ordinal n
TextMDY(n) ==
    LET d == FromOrdinal(n) IN [f1 |-> d.month, f2 |-> d.day, f3 |-> d.year]

\* the text 'DD-MM-YYYY 23:59:00' of the day with ordinal n
TextDMY(n) ==
    LET d == FromOrdinal(n) IN [f1 |-> d.day, f2 |-> d.month, f3 |-> d.year]

\* a cumulative reading of column c on the day at offset o from the first day
Reading(c, o) ==
    LET ci == CHOOSE i \in DOMAIN Columns : Columns[i] = c
    IN  ci * 10 * (o + 3) * (o + 3)

\* the candidate rows of the sheet, in the order the sheet lists them
\* (not by date), the third one with a date that is no date
SheetDates(m, y) ==
    LET f == FirstDay(y, m)
    IN  << TextMDY(f + 1), TextMDY(f - 2), [f1 |-> 30, f2 |-> 2, f3 |-> y],
           TextMDY(f), TextMDY(f + 2), TextMDY(f - 1) >>

SheetOffsets == <<1, -2, 0, 0, 2, -1>>

RECURSIVE Pick(_, _, _)
\* the subsequence of s at the indices in S, from index i on
Pick(s, S, i) ==
    IF i > Len(s) THEN <<>>
    ELSE (IF i \in S THEN <<s[i]>> ELSE <<>>) \o Pick(s, S, i + 1)

\* the sheets: at most MaxRows of the candidate rows (one row per date, in
\* an order that is not the order of the dates), every cell a number except
\* at most one cell of a meter column, which is blank or a text
Sheets(m, y) ==
    LET cand == [i \in 1 .. 6 |->
                    [date |-> SheetDates(m, y)[i],
                     vals |-> [c \in ValueColumns |-> Num(Reading(c, SheetOffsets[i]))]]]
        Defects == {<<0, "", NaN>>}
                   \cup ((1 .. 6) \X {"JAFZA 1-Meter 1", "JAFZA 2-Meter 1"} \X {NaN, Str})
        with(d) == [i \in 1 .. 6 |->
                      IF i = d[1]
                      THEN [cand[i] EXCEPT !.vals[d[2]] = d[3]]
                      ELSE cand[i]]
    IN  { Pick(with(d), S, 1) :
            S \in {T \in SUBSET (1 .. 6) : Cardinality(T) <= MaxRows /\ T # {}},
            d \in Defects }

(***************************************************************************)
(* process_solar_data, step by step.                                       *)
(***************************************************************************)
Init ==
    /\ pc = "load"
    /\ \E p \in Periods : month = p[1] /\ year = p[2]
    /\ source = <<>>
    /\ solar_sheet_df = <<>>
    /\ first_day = 0
    /\ last_day_prev_month = 0
    /\ month_data = <<>>
    /\ meter_columns = <<>>
    /\ mi = 0
    /\ deltas = <<>>
    /\ template = <<>>
    /\ template_df = <<>>
    /\ meter_mapping = <<>>
    /\ result = [kind |-> "none", rows |-> <<>>]
    /\ errors = <<>>

\* lines 9-13: the sheet is read, its dates parsed, the rows without a date dropped
LoadDates ==
    /\ pc = "load"
    /\ \E s \in Sheets(month, year) :
          /\ source' = s
          /\ solar_sheet_df' = LoadedRows(s)
    /\ pc' = "window"
    /\ UNCHANGED <<month, year, first_day, last_day_prev_month, month_data,
                   meter_columns, mi, deltas, template, template_df,
                   meter_mapping, result, errors>>

\* lines 16-17: the first day of the period and the day before it
ResolveWindow ==
    /\ pc = "window"
    /\ first_day' = FirstDay(year, month)
    /\ last_day_prev_month' = LastDayPrevMonth(year, month)
    /\ pc' = "select"
    /\ UNCHANGED <<month, year, source, solar_sheet_df, month_data,
                   meter_columns, mi, deltas, template, template_df,
                   meter_mapping, result, errors>>

\* lines 20-24: the rows of the selected month and year, and the row of the
\* last day of the previous month
InWindow(r, m, y, anchor) ==
    \/ (FromOrdinal(r.date).month = m /\ FromOrdinal(r.date).year = y)
    \/ r.date = anchor

RECURSIVE SortByDate(_)
\* line 27: sort_values(date_col)
SortByDate(rows) ==
    IF rows = <<>> THEN <<>>
    ELSE LET i == CHOOSE i \in DOMAIN rows :
                      \A j \in DOMAIN rows : rows[i].date <= rows[j].date
             rest == [j \in 1 .. (Len(rows) - 1) |->
                        IF j < i THEN rows[j] ELSE rows[j + 1]]
         IN  <<rows[i]>> \o SortByDate(rest)

\* lines 20-27
MonthData(rows, m, y, anchor) ==
    SortByDate(SelectSeq(rows, LAMBDA r : InWindow(r, m, y, anchor)))

\* lines 20-33: month_data, meter_columns and the empty deltas
SelectMonthData ==
    /\ pc = "select"
    /\ month_data' = MonthData(solar_sheet_df, month, year, last_day_prev_month)
    /\ meter_columns' = MeterColumns
    /\ deltas' = <<>>
    /\ mi' = 1
    /\ pc' = IF MeterColumns = <<>> THEN "template" ELSE "diff"
    /\ UNCHANGED <<month, year, source, solar_sheet_df, first_day,
                   last_day_prev_month, template, template_df, meter_mapping,
                   result, errors>>

\* the cells of one meter column of month_data, top to bottom
ColumnOf(rows, meter) == [i \in DOMAIN rows |-> rows[i].vals[meter]]

\* line 36: Series.diff() subtracts each cell's predecessor in the frame from
\* it; a text operand makes the subtraction raise TypeError
DiffRaises(col) ==
    \E i \in 2 .. Len(col) : col[i].k = "str" \/ col[i - 1].k = "str"

Sub(a, b) == IF a.k = "num" /\ b.k = "num" THEN Num(a.v - b.v) ELSE NaN

Diff(col) == [i \in DOMAIN col |-> IF i = 1 THEN NaN ELSE Sub(col[i], col[i - 1])]

\* lines 38-40: the deltas of one meter that are kept
Kept(rows, diffs, first) ==
    {i \in DOMAIN rows : rows[i].date >= first /\ diffs[i].k # "nan"}

StoreDeltas(d, rows, meter, diffs, first) ==
    LET new == {<<rows[i].date, meter>> : i \in Kept(rows, diffs, first)}
        at(key) == CHOOSE i \in Kept(rows, diffs, first) : rows[i].date = key[1]
    IN  [key \in DOMAIN d \cup new |->
            IF key \in new THEN diffs[at(key)].v ELSE d[key]]

\* lines 66-68: the except clause returns None after st.error has shown the
\* exception's text, which names no date and no meter
None == [kind |-> "None", rows |-> <<>>]

ErrorShown == [date |-> NaT, meter |-> "", reason |-> "Error processing data"]

\* lines 34-40: one pass of the loop over meter_columns
DiffMeter ==
    /\ pc = "diff"
    /\ LET meter == meter_columns[mi]
           col == ColumnOf(month_data, meter)
       IN  \/ /\ ~DiffRaises(col)
              /\ deltas' = StoreDeltas(deltas, month_data, meter, Diff(col), first_day)
              /\ mi' = mi + 1
              /\ pc' = IF mi = Len(meter_columns) THEN "template" ELSE "diff"
              /\ UNCHANGED <<result, errors>>
           \/ /\ DiffRaises(col)
              /\ pc' = "aborted"
              /\ result' = None
              /\ errors' = Append(errors, ErrorShown)
              /\ UNCHANGED <<deltas, mi>>
    /\ UNCHANGED <<month, year, source, solar_sheet_df, first_day,
                   last_day_prev_month, month_data, meter_columns, template,
                   template_df, meter_mapping>>

(***************************************************************************)
(* The template and the meter mapping.                                     *)
(***************************************************************************)
EndOfDay == <<23, 59, 0>>

TemplateRow(text, ref) ==
    [Time |-> [text |-> text, hms |-> EndOfDay], ref |-> ref, reading |-> NaN]

\* the candidate rows of the template, the last one with a time that is no time
TemplateRows(m, y) ==
    LET f == FirstDay(y, m)
    IN  { TemplateRow(TextDMY(f), "Jafza 1-Meter 1"),
          TemplateRow(TextDMY(f + 1), "Jafza 1-Meter 1"),
          TemplateRow(TextDMY(f), "Jafza 2-Meter 1"),
          TemplateRow(TextDMY(f), "JAFZA 2-Meter 1"),
          TemplateRow(TextDMY(f - 1), "Jafza 1-Meter 1"),
          TemplateRow([f1 |-> 31, f2 |-> 2, f3 |-> y], "Jafza 1-Meter 1") }

Templates(m, y) ==
    UNION {[1 .. n -> TemplateRows(m, y)] : n \in 1 .. MaxTemplate}

\* meter mappings (a dict keeps the order its keys were inserted in): part
\* of the default one, one that leaves a meter out, one with a value twice
Mappings ==
    { << <<"JAFZA 1-Meter 1", "Jafza 1-Meter 1">>,
         <<"JAFZA 2-Meter 1", "Jafza 2-Meter 1">>,
         <<"CGF", "DWC-CGF-Meter 1">> >>,
      << <<"JAFZA 1-Meter 1", "Jafza 1-Meter 1">>,
         <<"CGF", "DWC-CGF-Meter 1">> >>,
      << <<"JAFZA 1-Meter 1", "Jafza 1-Meter 1">>,
         <<"JAFZA 2-Meter 1", "Jafza 1-Meter 1">> >> }

\* line 43: the Time column parsed
ParsedTemplate(t) ==
    [i \in DOMAIN t |->
        [t[i] EXCEPT !.Time = [date |-> ParseDMY(t[i].Time.text), hms |-> t[i].Time.hms]]]

TimeRaises(t) == \E i \in DOMAIN t : ParseDMY(t[i].Time.text) = NaT

\* line 43
ParseTemplateTime ==
    /\ pc = "template"
    /\ \E t \in Templates(month, year) :
          /\ template' = t
          /\ \/ /\ ~TimeRaises(t)
                /\ template_df' = ParsedTemplate(t)
                /\ pc' = "update"
                /\ UNCHANGED <<result, errors>>
             \/ /\ TimeRaises(t)
                /\ pc' = "aborted"
                /\ result' = None
                /\ errors' = Append(errors, ErrorShown)
                /\ UNCHANGED template_df
    /\ UNCHANGED <<month, year, source, solar_sheet_df, first_day,
                   last_day_prev_month, month_data, meter_columns, mi, deltas,
                   meter_mapping>>

\* lines 50-55: the first key of the mapping whose value is ref ("" is None)
FindSolarMeter(mp, ref) ==
    IF \E i \in DOMAIN mp : mp[i][2] = ref
    THEN LET i == CHOOSE i \in DOMAIN mp :
                      /\ mp[i][2] = ref
                      /\ \A j \in 1 .. (i - 1) : mp[j][2] # ref
         IN  mp[i][1]
    ELSE ""

\* a variant that writes 0 where no delta is found (deltas.get(key, 0))
UpdateRow_DefaultZero(row, mp, d) ==
    LET solar_meter == FindSolarMeter(mp, row.ref)
        key == <<row.Time.date, solar_meter>>
    IN  IF solar_meter # ""
        THEN [row EXCEPT !.reading = Num(IF key \in DOMAIN d THEN d[key] ELSE 0)]
        ELSE row

\* lines 47-62: one row of the template
UpdateRow(row, mp, d) ==
    LET solar_meter == FindSolarMeter(mp, row.ref)
        key == <<row.Time.date, solar_meter>>
    IN  IF solar_meter # "" /\ key \in DOMAIN d
        THEN [row EXCEPT !.reading = Num(d[key])]
        ELSE row

RECURSIVE SortByTime(_)
SortByTime(rows) ==
    IF rows = <<>> THEN <<>>
    ELSE LET i == CHOOSE i \in DOMAIN rows :
                      /\ \A j \in DOMAIN rows : rows[i].Time.date <= rows[j].Time.date
                      /\ \A j \in 1 .. (i - 1) : rows[j].Time.date # rows[i].Time.date
             rest == [j \in 1 .. (Len(rows) - 1) |->
                        IF j < i THEN rows[j] ELSE rows[j + 1]]
         IN  <<rows[i]>> \o SortByTime(rest)

\* a variant that hands the rows back sorted by Time
UpdatedTemplate_SortedByTime(t, mp, d) ==
    SortByTime([i \in DOMAIN t |-> UpdateRow(t[i], mp, d)])

\* lines 46-62
UpdatedTemplate(t, mp, d) == [i \in DOMAIN t |-> UpdateRow(t[i], mp, d)]

\* lines 46-64: the loop over the template's rows, and the return
UpdateTemplate ==
    /\ pc = "update"
    /\ \E mp \in Mappings :
          /\ meter_mapping' = mp
          /\ template_df' = UpdatedTemplate(template_df, mp, deltas)
          /\ result' = [kind |-> "frame", rows |-> template_df']
    /\ pc' = "returned"
    /\ UNCHANGED <<month, year, source, solar_sheet_df, first_day,
                   last_day_prev_month, month_data, meter_columns, mi, deltas,
                   template, errors>>

Next ==
    \/ LoadDates
    \/ ResolveWindow
    \/ SelectMonthData
    \/ DiffMeter
    \/ ParseTemplateTime
    \/ UpdateTemplate

Spec == Init /\ [][Next]_vars

(***************************************************************************)
(* The window of every period, on its own.                                 *)
(***************************************************************************)
InitCal ==
    /\ pc = "window"
    /\ month \in 1 .. 12
    /\ year \in CalYears
    /\ source = <<>>
    /\ solar_sheet_df = <<>>
    /\ first_day = 0
    /\ last_day_prev_month = 0
    /\ month_data = <<>>
    /\ meter_columns = <<>>
    /\ mi = 0
    /\ deltas = <<>>
    /\ template = <<>>
    /\ template_df = <<>>
    /\ meter_mapping = <<>>
    /\ result = [kind |-> "none", rows |-> <<>>]
    /\ errors = <<>>

NextCal == ResolveWindow

SpecCal == InitCal /\ [][NextCal]_vars

(***************************************************************************)
(* What the properties speak of.                                           *)
(***************************************************************************)
Range(s) == {s[i] : i \in DOMAIN s}

\* the deltas have been computed, or the run has ended
AfterDeltas == pc \in {"template", "update", "returned", "aborted"}

\* the sheet has a number for meter m on day d
HasNum(d, m) ==
    \E i \in DOMAIN solar_sheet_df :
        solar_sheet_df[i].date = d /\ solar_sheet_df[i].vals[m].k = "num"

\* the sheet has a row for day d
HasRow(d) == \E i \in DOMAIN solar_sheet_df : solar_sheet_df[i].date = d

ValueAt(d, m) ==
    LET i == CHOOSE i \in DOMAIN solar_sheet_df : solar_sheet_df[i].date = d
    IN  solar_sheet_df[i].vals[m].v

InPeriod(d) == FromOrdinal(d).month = month /\ FromOrdinal(d).year = year

\* the Gregorian calendar, stated on its own
CalendarLeap(y) == (y % 4 = 0 /\ y % 100 # 0) \/ y % 400 = 0

CalendarDays(y, m) ==
    IF m \in {4, 6, 9, 11} THEN 30
    ELSE IF m = 2 THEN (IF CalendarLeap(y) THEN 29 ELSE 28)
    ELSE 31

CalendarLastDayBefore(y, m) ==
    IF m = 1
    THEN [year |-> y - 1, month |-> 12, day |-> 31]
    ELSE [year |-> y, month |-> m - 1, day |-> CalendarDays(y, m - 1)]

\* the mapping's keys, and the identifier a meter is to carry downstream
Keys(mp) == {mp[i][1] : i \in DOMAIN mp}

ToExternal(mp, m) ==
    IF m \in Keys(mp)
    THEN mp[CHOOSE i \in DOMAIN mp : mp[i][1] = m][2]
    ELSE m

\* two keys of the mapping have the value ref
Ambiguous(mp, ref) ==
    \E i, j \in DOMAIN mp : i # j /\ mp[i][2] = ref /\ mp[j][2] = ref

\* row i of the returned template received a delta
Received(i) == result.rows[i].reading # template[i].reading

\* the place in the sheet's schema of the meter a reference stands for
\* (0 when the reference stands for none)
SchemaIndex(mp, ref) ==
    IF FindSolarMeter(mp, ref) = "" THEN 0
    ELSE CHOOSE i \in DOMAIN Columns : Columns[i] = FindSolarMeter(mp, ref)

\* rows a and b of a parsed template are in ascending order of date and, on
\* one date, in schema order of the meters their references stand for
Ascending(a, b, mp) ==
    \/ a.Time.date < b.Time.date
    \/ /\ a.Time.date = b.Time.date
       /\ SchemaIndex(mp, a.ref) <= SchemaIndex(mp, b.ref)

(***************************************************************************)
(* C1: for every month 1..12 and every year, last_day_prev_month is the    *)
(* last calendar day of the month before: December 31 of the year before   *)
(* for January, else the last day of month-1 of the same year, February 29 *)
(* in leap years.                                                          *)
(***************************************************************************)
C1_AnchorIsLastDayOfPreviousMonth ==
    pc = "select" =>
        /\ FromOrdinal(last_day_prev_month) = CalendarLastDayBefore(year, month)
        /\ LET c == CalendarLastDayBefore(year, month)
           IN  ToOrdinal(c.year, c.month, c.day) = last_day_prev_month
        /\ FromOrdinal(first_day) = [year |-> year, month |-> month, day |-> 1]

C1_Witness_LeapDay ==
    /\ pc = "select"
    /\ month = 3
    /\ year = 2024
    /\ FromOrdinal(last_day_prev_month) = [year |-> 2024, month |-> 2, day |-> 29]

(***************************************************************************)
(* C2: for every tracked meter m, when the sheet has a number for m on the *)
(* first day of the period and on the anchor day, the delta recorded for   *)
(* (first_day, m) is value(first_day, m) - value(anchor_day, m); when      *)
(* either is absent, no delta is recorded for (first_day, m).              *)
(***************************************************************************)
C2_FirstDayDeltaFromAnchor ==
    AfterDeltas =>
        \A m \in Range(meter_columns) :
            IF HasNum(first_day, m) /\ HasNum(last_day_prev_month, m)
            THEN /\ <<first_day, m>> \in DOMAIN deltas
                 /\ deltas[<<first_day, m>>] =
                        ValueAt(first_day, m) - ValueAt(last_day_prev_month, m)
            ELSE <<first_day, m>> \notin DOMAIN deltas

(***************************************************************************)
(* C3: no multi-day backward search: for every date d of the period after  *)
(* the first day and every tracked meter m, a delta is recorded for (d, m) *)
(* only if the sheet has a number for m on the calendar day d-1, and it is *)
(* then value(d, m) - value(d-1, m); when day d-1 has no reading for m     *)
(* (no row, or a blank) no delta is recorded for (d, m).                   *)
(***************************************************************************)
C3_OnlyTheDayBefore ==
    \A key \in DOMAIN deltas :
        key[1] > first_day =>
            /\ HasNum(key[1] - 1, key[2])
            /\ deltas[key] = ValueAt(key[1], key[2]) - ValueAt(key[1] - 1, key[2])

(***************************************************************************)
(* C4: a reading that is missing or is no number is handled where it is:   *)
(* process_solar_data does not abort over it, records no delta for the     *)
(* pairs that needed it, and leaves the other deltas as they would be; a   *)
(* reading that is no number is treated exactly like a missing one.        *)
(***************************************************************************)
Blanked(rows) ==
    [i \in DOMAIN rows |->
        [rows[i] EXCEPT !.vals = [c \in DOMAIN rows[i].vals |->
            IF rows[i].vals[c].k = "str" THEN NaN ELSE rows[i].vals[c]]]]

RECURSIVE DeltasOfMeters(_, _, _, _)
\* the deltas the loop of lines 34-40 leaves for the first n meters
DeltasOfMeters(rows, meters, n, first) ==
    IF n = 0 THEN <<>>
    ELSE StoreDeltas(DeltasOfMeters(rows, meters, n - 1, first), rows, meters[n],
                     Diff(ColumnOf(rows, meters[n])), first)

C4_BadReadingHandledLocally ==
    AfterDeltas =>
        /\ (pc = "aborted" => template # <<>>)
        /\ (pc # "aborted" \/ template # <<>>) =>
              deltas = DeltasOfMeters(
                          MonthData(Blanked(solar_sheet_df), month, year,
                                    last_day_prev_month),
                          meter_columns, Len(meter_columns), first_day)

(***************************************************************************)
(* C5: every (date, meter) pair of the period for which no delta could be  *)
(* computed, and every row of the sheet dropped for its unparsable date,   *)
(* has a diagnostic (date, meter, reason) that reaches the caller with the *)
(* result.                                                                 *)
(***************************************************************************)
Diagnosed(d, m) ==
    \E j \in DOMAIN errors : errors[j].date = d /\ errors[j].meter = m

C5_EveryFailureDiagnosed ==
    pc = "returned" =>
        /\ \A i \in DOMAIN month_data, m \in Range(meter_columns) :
              (month_data[i].date >= first_day
                  /\ <<month_data[i].date, m>> \notin DOMAIN deltas)
              => Diagnosed(month_data[i].date, m)
        /\ Cardinality({i \in DOMAIN source : ParseMDY(source[i].date) = NaT})
              <= Cardinality({j \in DOMAIN errors : errors[j].meter = ""})

(***************************************************************************)
(* C6: deltas are computed for every meter column of the sheet, whatever   *)
(* its name: for every meter column m and every date d of the period with  *)
(* numbers on d and on the day before, a delta for (d, m) is computed and  *)
(* reaches the output record of the identifier m maps to.                  *)
(***************************************************************************)
C6_EveryMeterColumn ==
    pc = "returned" =>
        \A m \in ValueColumns, i \in DOMAIN solar_sheet_df :
            LET d == solar_sheet_df[i].date
            IN  (InPeriod(d) /\ HasNum(d, m) /\ HasNum(d - 1, m)) =>
                    /\ <<d, m>> \in DOMAIN deltas
                    /\ \A r \in DOMAIN result.rows :
                          (result.rows[r].Time.date = d
                              /\ result.rows[r].ref = ToExternal(meter_mapping, m))
                          => result.rows[r].reading =
                                Num(ValueAt(d, m) - ValueAt(d - 1, m))

(***************************************************************************)
(* C7: identity pass-through: the deltas of a tracked meter that has no    *)
(* entry in the mapping still appear in the output, under the meter's      *)
(* internal label unchanged.                                               *)
(***************************************************************************)
C7_UnmappedMeterPassesThrough ==
    pc = "returned" =>
        \A m \in Range(meter_columns) \ Keys(meter_mapping), r \in DOMAIN result.rows :
            (result.rows[r].ref = m /\ <<result.rows[r].Time.date, m>> \in DOMAIN deltas)
            => result.rows[r].reading = Num(deltas[<<result.rows[r].Time.date, m>>])

(***************************************************************************)
(* C8: when the mapping sends two internal labels to one external          *)
(* identifier, the reverse lookup of that identifier is an error: the run  *)
(* fails and never resolves it to the first matching label.                *)
(***************************************************************************)
C8_AmbiguousLookupFails ==
    pc = "returned" =>
        \A r \in DOMAIN template_df : ~Ambiguous(meter_mapping, template_df[r].ref)

(***************************************************************************)
(* C9, as the specification states it: the records that receive a delta    *)
(* are emitted in ascending order of date and, within one date, in the     *)
(* order the meters appear in the sheet's schema, whatever the order of    *)
(* the rows of the sheet and of the template.                              *)
(***************************************************************************)
C9_EmittedInDateThenMeterOrder ==
    pc = "returned" =>
        \A i, j \in DOMAIN result.rows :
            (i < j /\ Received(i) /\ Received(j))
            => Ascending(result.rows[i], result.rows[j], meter_mapping)

(***************************************************************************)
(* C9, amended: the records that receive a delta are emitted in the order  *)
(* of their rows in the template, the output being the template's rows in  *)
(* the template's order; they are in ascending order of date, and within   *)
(* one date in schema order of the meters, whenever the template lists     *)
(* its rows so.                                                            *)
(***************************************************************************)
C9_EmittedInTemplateOrder ==
    pc = "returned" =>
        LET t == ParsedTemplate(template)
        IN  /\ Len(result.rows) = Len(template)
            /\ \A i \in DOMAIN result.rows :
                  /\ result.rows[i].Time.date = ParseDMY(template[i].Time.text)
                  /\ result.rows[i].ref = template[i].ref
            /\ (\A i, j \in DOMAIN t : i < j => Ascending(t[i], t[j], meter_mapping))
               => \A i, j \in DOMAIN result.rows :
                     (i < j /\ Received(i) /\ Received(j))
                     => Ascending(result.rows[i], result.rows[j], meter_mapping)

C9_Witness_TwoRecordsInTemplateOrder ==
    /\ pc = "returned"
    /\ \A i, j \in DOMAIN template_df :
          i < j => Ascending(template_df[i], template_df[j], meter_mapping)
    /\ \E i, j \in DOMAIN result.rows :
          /\ i < j /\ Received(i) /\ Received(j)
          /\ result.rows[i].Time.date < result.rows[j].Time.date
    /\ \E i, j \in DOMAIN source : i < j /\ ParseMDY(source[i].date) > ParseMDY(source[j].date)

(***************************************************************************)
(* C10: the returned template has the rows of the input template in the    *)
(* same order; a row's reading is overwritten only if its reference meter  *)
(* is the mapping's value for some internal label and a delta exists for   *)
(* (the row's date, that label); a row whose date is outside the selected  *)
(* month and year, whose reference meter is no value of the mapping, or    *)
(* for which no delta was computed keeps its reading; only the Time and    *)
(* the reading columns change.                                             *)
(***************************************************************************)
C10_TemplateFrame ==
    pc = "returned" =>
        /\ Len(result.rows) = Len(template)
        /\ \A i \in DOMAIN result.rows :
              LET row == result.rows[i]
                  labels == {k \in Keys(meter_mapping) :
                                /\ ToExternal(meter_mapping, k) = row.ref
                                /\ <<row.Time.date, k>> \in DOMAIN deltas}
              IN  /\ row.ref = template[i].ref
                  /\ row.Time.hms = template[i].Time.hms
                  /\ TextDMY(row.Time.date) = template[i].Time.text
                  /\ Received(i) =>
                        /\ InPeriod(row.Time.date)
                        /\ \E k \in labels :
                              row.reading = Num(deltas[<<row.Time.date, k>>])
                  /\ (~InPeriod(row.Time.date) \/ labels = {}) =>
                        row.reading = template[i].reading

C10_Witness_OneRowWrittenOneKept ==
    /\ pc = "returned"
    /\ \E i, j \in DOMAIN result.rows :
          /\ Received(i)
          /\ ~Received(j)
          /\ result.rows[j].Time.date = last_day_prev_month
          /\ <<first_day, "JAFZA 1-Meter 1">> \in DOMAIN deltas

====
